---------------------------- MODULE Spec2Model ----------------------------
(***************************************************************************)
(* A model of the Kamstrup meter reader (Kamstrup_Powermeter_MQTT.ino):    *)
(* the register read kamReadReg with the frame codec kamSend/kamReceive,   *)
(* the checksum crc_1021 and the reply decoder kamDecode; the poll         *)
(* readKamstrup over the register table; setup_wifi and reboot.            *)
(*                                                                         *)
(* Bytes are naturals 0..255.  C arrays are sequences; the C index k is    *)
(* the sequence index k+1.  A float is represented by the exact decimal    *)
(* number it approximates (see FloatMul): single-precision rounding is not *)
(* modelled.                                                               *)
(***************************************************************************)
EXTENDS Integers, Sequences, FiniteSets, TLC

VARIABLES
  pc,       \* position of the single thread of control
  kreg,     \* kamReadReg: index of the register being read
  sendmsg,  \* kamSend: the message handed to it (msg, msgsize)
  newmsg,   \* kamSend: the message with its two checksum bytes
  txmsg,    \* kamSend: the bytes written to the serial line
  rxq,      \* serial line: the bytes the source delivers during this read
  rxpos,    \* serial line: how many of them kamSer.read() has handed over
  elapsed,  \* kamReceive: millis() - starttime
  r,        \* kamReceive: the last byte read
  rxdata,   \* kamReceive: the accumulation buffer; rxindex = Len(rxdata)
  recvmsg,  \* kamReadReg: the 40-byte buffer kamReceive un-escapes into
  rxnum,    \* kamReadReg: what kamReceive returned
  logmsg,   \* kamReceive: the diagnostic it printed on the debug console
  rval,     \* kamReadReg: the value handed to the caller
  att,      \* readKamstrup: attempts made for the register being read
  val,      \* readKamstrup: the value read for it so far
  connAtt,  \* failed runs of setup_wifi since boot
  wifiAtt,  \* setup_wifi: seconds waited for the connection (its att)
  wifiUp,   \* WiFi.status() == WL_CONNECTED
  wpc       \* position inside setup_wifi

\* The state of one register read, of readKamstrup's loop and of the WiFi
\* connection.
readVars == <<pc, kreg, sendmsg, newmsg, txmsg, rxq, rxpos, elapsed, r,
              rxdata, recvmsg, rxnum, logmsg, rval>>
pollVars == <<att, val>>
wifiVars == <<connAtt, wifiAtt, wifiUp, wpc>>

vars == <<pc, kreg, sendmsg, newmsg, txmsg, rxq, rxpos, elapsed, r, rxdata,
          recvmsg, rxnum, logmsg, rval, att, val, connAtt, wifiAtt, wifiUp,
          wpc>>

----------------------------------------------------------------------------
(* Bounds of the model *)

\* Longest message drawn for kamSend in the codec specification.
MaxMsgLen == 3
\* Milliseconds the clock advances between two looks at millis().
TickMs == 250
\* Most mantissa bytes of a reply drawn for kamDecode.
MaxMant == 4

----------------------------------------------------------------------------
(* Program constants *)

NUMREGS == 13
KAMTIMEOUT == 1000
\* Capacities of the fixed-size buffers rxdata, recvmsg and txmsg.
RXCAP == 50
RECVCAP == 40
TXCAP == 20

kregnums == <<1, 13, 1023, 39, 1054, 1055, 1056, 1076, 1077, 1078,
              1080, 1081, 1082>>

Byte == 0..255

\* The wire format's markers.
StartTx == 128
StartRx == 64
EndMark == 13
EscMark == 27

----------------------------------------------------------------------------
(* Bitwise operators of C on naturals *)

RECURSIVE BitAnd(_, _)
BitAnd(a, b) ==
  IF a = 0 \/ b = 0 THEN 0
  ELSE (a % 2) * (b % 2) + 2 * BitAnd(a \div 2, b \div 2)

RECURSIVE BitOr(_, _)
BitOr(a, b) ==
  IF a = 0 THEN b
  ELSE IF b = 0 THEN a
  ELSE (IF a % 2 = 1 \/ b % 2 = 1 THEN 1 ELSE 0)
       + 2 * BitOr(a \div 2, b \div 2)

RECURSIVE BitXor(_, _)
BitXor(a, b) ==
  IF a = 0 THEN b
  ELSE IF b = 0 THEN a
  ELSE ((a + b) % 2) + 2 * BitXor(a \div 2, b \div 2)

\* msg[k] of the C code.
At(msg, k) == msg[k + 1]

----------------------------------------------------------------------------
(* crc_1021 *)

\* v & mask # 0 for a mask of one bit.
BitSet(v, mask) == (v \div mask) % 2 = 1

\* One turn of the inner while loop: shift, bring in the bit under mask,
\* reduce by the polynomial when bit 16 is set.
CrcBit(creg, b, mask) ==
  LET shifted == creg * 2
      withbit == IF BitSet(b, mask) THEN BitOr(shifted, 1) ELSE shifted
  IN  IF BitSet(withbit, 65536)
        THEN BitXor(withbit % 65536, 4129)
        ELSE withbit

\* The inner loop over mask = 0x80, 0x40, ..., 1.  (The register after
\* each turn is bound as an element of a one-element set, so that TLC
\* computes it once, before the next turn.)
RECURSIVE CrcByte(_, _, _)
CrcByte(creg, b, mask) ==
  IF mask > 0
    THEN CHOOSE v \in {CrcByte(c, b, mask \div 2) :
                         c \in {CrcBit(creg, b, mask)}} : TRUE
    ELSE creg

\* The outer loop over the bytes inmsg[i], ..., inmsg[len-1].
RECURSIVE CrcFrom(_, _, _, _)
CrcFrom(creg, inmsg, i, len) ==
  IF i < len
    THEN CHOOSE v \in {CrcFrom(c, inmsg, i + 1, len) :
                         c \in {CrcByte(creg, At(inmsg, i), 128)}} : TRUE
    ELSE creg

crc_1021(inmsg, len) == CrcFrom(0, inmsg, 0, len)

----------------------------------------------------------------------------
(* kamSend *)

\* AppendCrc with the two checksum bytes stored low byte first.
AppendCrcHiLoSwapped(msg) ==
  LET c == crc_1021(msg \o <<0, 0>>, Len(msg) + 2)
  IN  msg \o <<BitAnd(c, 255), (c \div 256) % 256>>

\* Lines 240-247: two zero bytes appended, the checksum of the whole
\* computed, its high byte then its low byte stored in their place.
AppendCrc(msg) ==
  LET c == crc_1021(msg \o <<0, 0>>, Len(msg) + 2)
  IN  msg \o <<(c \div 256) % 256, BitAnd(c, 255)>>

\* The test of line 253 without the value 0x06.
ReservedButAck(b) == b = 13 \/ b = 27 \/ b = 64 \/ b = 128

\* Line 253: the byte values that are escaped.
Reserved(b) == b = 6 \/ b = 13 \/ b = 27 \/ b = 64 \/ b = 128

\* Lines 252-259: the bytes one message byte contributes to txmsg.
EscapeByte(b) ==
  IF Reserved(b) THEN <<EscMark, BitXor(b, 255)>> ELSE <<b>>

RECURSIVE Escape(_)
Escape(msg) ==
  IF msg = <<>> THEN <<>> ELSE EscapeByte(Head(msg)) \o Escape(Tail(msg))

\* Lines 250-260: prefix, escaped body, EOF.
TxFrame(msg) == <<StartTx>> \o Escape(msg) \o <<EndMark>>

----------------------------------------------------------------------------
(* kamReceive *)

\* Line 284: the rx timeout test.
TimedOutAtDeadline(t) == t >= KAMTIMEOUT

TimedOut(t) == t > KAMTIMEOUT

\* Lines 305-318: the un-escape loop from index i up to (not including)
\* bound, acc being recvmsg[0..j-1] so far.  (The test on acc has TLC
\* compute it at every turn, which keeps the evaluation shallow.)
RECURSIVE UnescapeFrom(_, _, _, _)
UnescapeFrom(data, i, bound, acc) ==
  IF i < bound /\ Len(acc) >= 0
    THEN IF At(data, i) = EscMark
           THEN UnescapeFrom(data, i + 2, bound,
                             Append(acc, BitXor(At(data, i + 1), 255)))
           ELSE UnescapeFrom(data, i + 1, bound, Append(acc, At(data, i)))
    ELSE acc

\* Un-escape with the terminator taken for data (bound rxindex, not rxindex-1).
UnescapeWithTerminator(data) ==
  UnescapeFrom(data \o <<0>>, 0, Len(data), <<>>)

\* The bytes the loop writes to recvmsg for rxindex = Len(data) >= 1.
Unescape(data) == UnescapeFrom(data, 0, Len(data) - 1, <<>>)

\* Lines 321-326 with the two checksum bytes taken off the reported length.
ReceivedLengthLessCrc(out) ==
  IF crc_1021(out, Len(out)) # 0 THEN 0
  ELSE IF Len(out) >= 2 THEN Len(out) - 2 ELSE 0

\* Lines 321-326: what kamReceive returns for the un-escaped bytes out.
ReceivedLength(out) == IF crc_1021(out, Len(out)) # 0 THEN 0 ELSE Len(out)

----------------------------------------------------------------------------
(* kamDecode *)

\* Single precision: 10^e is finite up to e = 38 and is rounded to zero
\* below e = -45; the largest finite value is 3.40282346e38.
FltMaxExp10 == 38
FltMinExp10 == -45
FltMaxLead == 340282346

RECURSIVE Pow10(_)
Pow10(n) == IF n <= 0 THEN 1 ELSE 10 * Pow10(n - 1)

\* x * 10^e lies beyond the largest finite float (for e <= 38; decided on
\* the nine leading digits of that value).
ProductOverflows(x, e) ==
  /\ e > 29
  /\ \/ x > FltMaxLead \div Pow10(e - 30)
     \/ x < 0 - (FltMaxLead \div Pow10(e - 30))

\* Lines 353-359: the float x * ifl, ifl being pow(10, e) as a float,
\* negated when neg.  A finite result is the exact number m * 10^e, times
\* -1 when neg; its rounding to 24 bits is not modelled.
FloatMul(x, e, neg) ==
  IF e > FltMaxExp10
    THEN IF x = 0
           THEN [cls |-> "nan", m |-> 0, e |-> 0, neg |-> FALSE]
           ELSE [cls |-> "inf", m |-> 0, e |-> 0, neg |-> (x < 0) # neg]
  ELSE IF e < FltMinExp10
    THEN [cls |-> "fin", m |-> 0, e |-> 0, neg |-> (x < 0) # neg]
  ELSE IF ProductOverflows(x, e)
    THEN [cls |-> "inf", m |-> 0, e |-> 0, neg |-> (x < 0) # neg]
  ELSE [cls |-> "fin", m |-> x, e |-> e, neg |-> neg]

\* The float that "return false" and "float val = 0" yield.
FloatZero == [cls |-> "fin", m |-> 0, e |-> 0, neg |-> FALSE]

\* val == 0 of the C code.
IsZero(f) == f.cls = "fin" /\ f.m = 0

\* msg[i] of a buffer of Len(msg) bytes; g is what lies behind the buffer.
Rd(msg, i, g) == IF i < Len(msg) THEN At(msg, i) ELSE g

\* x <<= 8 on a 32-bit signed long.
Shl8(x) ==
  LET low24 == x % 16777216
      top   == low24 \div 65536
      rest  == low24 % 65536
  IN  (IF top >= 128 THEN top - 256 ELSE top) * 16777216 + rest * 256

\* x |= b for a byte b.
OrByte(x, b) == x - (x % 256) + BitOr(x % 256, b)

\* Lines 342-346: the mantissa loop from i up to n, reading from offset off.
\* (The test on x has TLC compute it at every turn.)
RECURSIVE Mantissa(_, _, _, _, _, _)
Mantissa(msg, g, x, i, n, off) ==
  IF i < n /\ x \in Int
    THEN Mantissa(msg, g, OrByte(Shl8(x), Rd(msg, i + off, g)), i + 1, n, off)
    ELSE x

\* Lines 333-339: the reply is no answer to a read of register k.
HeaderMismatch(k, msg, g) ==
  \/ Rd(msg, 0, g) # 63
  \/ Rd(msg, 1, g) # 16
  \/ Rd(msg, 2, g) # kregnums[k + 1] \div 256
  \/ Rd(msg, 3, g) # BitAnd(kregnums[k + 1], 255)

\* The first turn of the mantissa loop that still shows in x: a 32-bit
\* long keeps the last four bytes shifted into it.
FirstKept(n) == IF n > 4 THEN n - 4 ELSE 0

\* The exponent with bit 0x40 ignored.
ExponentNeverNegated(b) == BitAnd(b, 63)

\* Lines 349-352: the signed exponent of the exponent-and-sign byte b.
Exponent(b) ==
  IF BitAnd(b, 64) # 0 THEN 0 - BitAnd(b, 63) ELSE BitAnd(b, 63)

\* kamDecode with the layout length at 4, exponent at 5, mantissa from 6.
kamDecodeShifted(k, msg, g) ==
  IF HeaderMismatch(k, msg, g) THEN FloatZero
  ELSE FloatMul(Mantissa(msg, g, 0, FirstKept(Rd(msg, 4, g)),
                         Rd(msg, 4, g), 6),
                Exponent(Rd(msg, 5, g)),
                BitAnd(Rd(msg, 5, g), 128) # 0)

\* The indices of msg that kamDecode reads: lines 334 and 337 (the second
\* operand of `or` only when the first is false), then lines 343-354.
kamDecodeReads(k, msg, g) ==
  {0}
  \cup (IF Rd(msg, 0, g) = 63 THEN {1} ELSE {})
  \cup (IF Rd(msg, 0, g) = 63 /\ Rd(msg, 1, g) = 16 THEN {2} ELSE {})
  \cup (IF /\ Rd(msg, 0, g) = 63
           /\ Rd(msg, 1, g) = 16
           /\ Rd(msg, 2, g) = kregnums[k + 1] \div 256
        THEN {3} ELSE {})
  \cup (IF HeaderMismatch(k, msg, g) THEN {}
        ELSE {5, 6} \cup {i + 7 : i \in 0..(Rd(msg, 5, g) - 1)})

\* Lines 331-361.
kamDecode(k, msg, g) ==
  IF HeaderMismatch(k, msg, g) THEN FloatZero
  ELSE FloatMul(Mantissa(msg, g, 0, FirstKept(Rd(msg, 5, g)),
                         Rd(msg, 5, g), 7),
                Exponent(Rd(msg, 6, g)),
                BitAnd(Rd(msg, 6, g), 128) # 0)

----------------------------------------------------------------------------
(* The environment: what the stack holds, what the meter sends *)

\* Contents of stack memory no statement has written yet.
StackBytes == {0, 255}
\* Values of the uninitialised byte r on entry to kamReceive.
UninitR == {0, EndMark}
\* Values a float function hands back when it ends without a return.
UnsetFloats == {FloatZero, [cls |-> "fin", m |-> 12345, e |-> -2, neg |-> FALSE]}

\* byte recvmsg[40], not yet written.
FreshBuffer(g) == [i \in 1..RECVCAP |-> g]

\* A reply of the meter before checksum and framing.
Reply(op, reg, unit, len, expb, mant) ==
  <<63, op, reg \div 256, reg % 256, unit, len, expb>> \o mant

\* The reply as the meter frames it: start token, escaped body, end marker.
MeterFrame(body) == <<StartRx>> \o Escape(body) \o <<EndMark>>

OtherReg(k) == kregnums[((k + 1) % NUMREGS) + 1]

GoodReply(reg) == Reply(16, reg, 2, 4, 66, <<0, 0, 48, 57>>)
ZeroReply(reg) == Reply(16, reg, 2, 4, 0, <<0, 0, 0, 0>>)

\* The byte streams the meter (or line noise) may deliver after a request
\* for register index k.
StreamsFor(k) ==
  LET reg  == kregnums[k + 1]
      good == MeterFrame(AppendCrc(GoodReply(reg)))
  IN  { <<>>,
        <<EndMark>>,
        good,
        good \o <<StartRx, 63>>,
        SubSeq(good, 1, Len(good) - 1),
        MeterFrame(AppendCrc(ZeroReply(reg))),
        MeterFrame(AppendCrc(GoodReply(OtherReg(k)))),
        MeterFrame(AppendCrc(Reply(17, reg, 2, 4, 66, <<0, 0, 48, 57>>))),
        MeterFrame(GoodReply(reg) \o <<0, 0>>),
        [i \in 1..(RXCAP + 1) |-> 85],
        MeterFrame(AppendCrc([i \in 1..(RECVCAP - 1) |-> 85])),
        MeterFrame(AppendCrc(<<63, 16, reg \div 256, reg % 256>>)) }

----------------------------------------------------------------------------
(* kamReadReg, kamSend, kamReceive as steps of one thread *)

\* The request with the register's low byte before its high byte.
RequestLowByteFirst(k) ==
  <<63, 16, 1, BitAnd(kregnums[k + 1], 255), kregnums[k + 1] \div 256>>

\* Line 214: sendmsg for register index k.
RequestFor(k) ==
  <<63, 16, 1, kregnums[k + 1] \div 256, BitAnd(kregnums[k + 1], 255)>>

\* Lines 208-215: the request for register kreg is composed.
KamReadRegRequest ==
  /\ pc = "readreg"
  /\ sendmsg' = RequestFor(kreg)
  /\ pc' = "send"
  /\ UNCHANGED <<kreg, newmsg, txmsg, rxq, rxpos, elapsed, r, rxdata, recvmsg,
                 rxnum, logmsg, rval>>
  /\ UNCHANGED <<pollVars, wifiVars>>

\* Lines 238-267: checksum, escaping, and the write to the serial line.
\* A frame longer than txmsg[20] is written past its end.
KamSend ==
  /\ pc = "send"
  /\ newmsg' = AppendCrc(sendmsg)
  /\ IF Len(TxFrame(newmsg')) <= TXCAP
       THEN txmsg' = TxFrame(newmsg') /\ pc' = "sent"
       ELSE txmsg' = txmsg /\ pc' = "corrupt"
  /\ UNCHANGED <<kreg, sendmsg, rxq, rxpos, elapsed, r, rxdata, recvmsg,
                 rxnum, logmsg, rval>>
  /\ UNCHANGED <<pollVars, wifiVars>>

\* The meter answers (or does not): the bytes that will arrive.
MeterReply ==
  /\ pc = "sent"
  /\ \E s \in StreamsFor(kreg) : rxq' = s
  /\ pc' = "recv"
  /\ UNCHANGED <<kreg, sendmsg, newmsg, txmsg, rxpos, elapsed, r, rxdata,
                 recvmsg, rxnum, logmsg, rval>>
  /\ UNCHANGED <<pollVars, wifiVars>>

\* Lines 270-278: rxindex = 0, starttime = millis(), r declared unset.
KamReceiveEnter ==
  /\ pc = "recv"
  /\ rxdata' = <<>>
  /\ elapsed' = 0
  /\ \E b \in UninitR : r' = b
  /\ pc' = "loop"
  /\ UNCHANGED <<kreg, sendmsg, newmsg, txmsg, rxq, rxpos, recvmsg, rxnum,
                 logmsg, rval>>
  /\ UNCHANGED <<pollVars, wifiVars>>

\* millis() moves on while the loop polls.
Tick ==
  /\ pc = "loop"
  /\ elapsed <= KAMTIMEOUT
  /\ elapsed' = elapsed + TickMs
  /\ UNCHANGED <<pc, kreg, sendmsg, newmsg, txmsg, rxq, rxpos, r, rxdata,
                 recvmsg, rxnum, logmsg, rval>>
  /\ UNCHANGED <<pollVars, wifiVars>>

\* Lines 281, 284-287: the loop is entered and the deadline has passed.
RecvTimeout ==
  /\ pc = "loop"
  /\ r # EndMark
  /\ TimedOut(elapsed)
  /\ logmsg' = "Timed out listening for data"
  /\ rxnum' = 0
  /\ pc' = "recvret"
  /\ UNCHANGED <<kreg, sendmsg, newmsg, txmsg, rxq, rxpos, elapsed, r, rxdata,
                 recvmsg, rval>>
  /\ UNCHANGED <<pollVars, wifiVars>>

\* Lines 281, 290-300: a byte is available and is read; every byte but 0x40
\* is stored at rxdata[rxindex].  A store at index 50 or beyond leaves the
\* buffer.
RecvByte ==
  /\ pc = "loop"
  /\ r # EndMark
  /\ ~TimedOut(elapsed)
  /\ rxpos < Len(rxq)
  /\ r' = At(rxq, rxpos)
  /\ rxpos' = rxpos + 1
  /\ IF r' = StartRx
       THEN rxdata' = rxdata /\ pc' = pc
       ELSE IF Len(rxdata) < RXCAP
              THEN rxdata' = Append(rxdata, r') /\ pc' = pc
              ELSE rxdata' = rxdata /\ pc' = "corrupt"
  /\ UNCHANGED <<kreg, sendmsg, newmsg, txmsg, rxq, elapsed, recvmsg, rxnum,
                 logmsg, rval>>
  /\ UNCHANGED <<pollVars, wifiVars>>

\* Line 281: r is 0x0d and the loop is left.  With rxindex = 0 the bound
\* rxindex - 1 of the un-escape loop wraps and the loop runs over the stack.
RecvLoopExit ==
  /\ pc = "loop"
  /\ r = EndMark
  /\ pc' = IF Len(rxdata) = 0 THEN "corrupt" ELSE "unescape"
  /\ UNCHANGED <<kreg, sendmsg, newmsg, txmsg, rxq, rxpos, elapsed, r, rxdata,
                 recvmsg, rxnum, logmsg, rval>>
  /\ UNCHANGED <<pollVars, wifiVars>>

\* Lines 303-318: the un-escaped bytes are written to recvmsg[0..j-1]; more
\* than 40 of them leave the caller's buffer.
UnescapeStep ==
  /\ pc = "unescape"
  /\ LET out == Unescape(rxdata)
     IN  IF Len(out) <= RECVCAP
           THEN /\ recvmsg' = out \o SubSeq(recvmsg, Len(out) + 1, RECVCAP)
                /\ rxnum' = Len(out)
                /\ pc' = "crc"
           ELSE /\ recvmsg' = recvmsg
                /\ rxnum' = rxnum
                /\ pc' = "corrupt"
  /\ UNCHANGED <<kreg, sendmsg, newmsg, txmsg, rxq, rxpos, elapsed, r, rxdata,
                 logmsg, rval>>
  /\ UNCHANGED <<pollVars, wifiVars>>

\* Lines 320-327: the checksum over recvmsg[0..j-1]; 0 or j is returned.
CrcCheck ==
  /\ pc = "crc"
  /\ rxnum' = ReceivedLength(SubSeq(recvmsg, 1, rxnum))
  /\ logmsg' = IF rxnum' = 0 /\ crc_1021(recvmsg, rxnum) # 0
                 THEN "CRC error: " ELSE logmsg
  /\ pc' = "recvret"
  /\ UNCHANGED <<kreg, sendmsg, newmsg, txmsg, rxq, rxpos, elapsed, r, rxdata,
                 recvmsg, rval>>
  /\ UNCHANGED <<pollVars, wifiVars>>

\* Lines 221-233: bytes were received; the reply is decoded and returned.
KamReadRegDecode ==
  /\ pc = "recvret"
  /\ rxnum # 0
  /\ \E g \in StackBytes : rval' = kamDecode(kreg, recvmsg, g)
  /\ pc' = "done"
  /\ UNCHANGED <<kreg, sendmsg, newmsg, txmsg, rxq, rxpos, elapsed, r, rxdata,
                 recvmsg, rxnum, logmsg>>
  /\ UNCHANGED <<pollVars, wifiVars>>

\* Lines 221, 234-235: kamReceive returned 0 and the function ends without
\* a return statement; the caller reads whatever the return register holds.
KamReadRegFallOff ==
  /\ pc = "recvret"
  /\ rxnum = 0
  /\ \E f \in UnsetFloats : rval' = f
  /\ pc' = "done"
  /\ UNCHANGED <<kreg, sendmsg, newmsg, txmsg, rxq, rxpos, elapsed, r, rxdata,
                 recvmsg, rxnum, logmsg>>
  /\ UNCHANGED <<pollVars, wifiVars>>

\* readKamstrup is not running: val = 0, att = 0.
PollIdle == att = 0 /\ val = FloatZero

\* Lines 52-53 and the state of the radio at boot.
WifiBoot ==
  /\ connAtt = 0
  /\ wifiAtt = 0
  /\ wifiUp = FALSE
  /\ wpc = "idle"

\* One register read, for each register of the table.
Init ==
  /\ pc = "readreg"
  /\ kreg \in 0..(NUMREGS - 1)
  /\ sendmsg = <<>>
  /\ newmsg = <<>>
  /\ txmsg = <<>>
  /\ rxq = <<>>
  /\ rxpos = 0
  /\ elapsed = 0
  /\ r = 0
  /\ rxdata = <<>>
  /\ \E g \in StackBytes : recvmsg = FreshBuffer(g)
  /\ rxnum = 0
  /\ logmsg = ""
  /\ rval = FloatZero
  /\ PollIdle
  /\ WifiBoot

Next ==
  \/ KamReadRegRequest
  \/ KamSend
  \/ MeterReply
  \/ KamReceiveEnter
  \/ Tick
  \/ RecvTimeout
  \/ RecvByte
  \/ RecvLoopExit
  \/ UnescapeStep
  \/ CrcCheck
  \/ KamReadRegDecode
  \/ KamReadRegFallOff

Spec == Init /\ [][Next]_vars

----------------------------------------------------------------------------
(* The codec on its own: kamSend on any message, its frame received back *)

\* Byte values drawn for messages: plain ones and the five reserved ones.
ByteSample == {0, 63, 13, 27, 64, 128}

SeqsUpTo(S, n) == UNION {[1..k -> S] : k \in 0..n}

\* The messages kamSend is applied to.
Msgs == SeqsUpTo(ByteSample, MaxMsgLen) \cup {<<b>> : b \in Byte}

\* The frame kamSend wrote is what the receive line delivers, less the 0x80
\* prefix, with or without the 0x40 start token of a meter's reply.
Wire ==
  /\ pc = "sent"
  /\ \E pre \in {<<>>, <<StartRx>>} : rxq' = pre \o Tail(txmsg)
  /\ pc' = "recv"
  /\ UNCHANGED <<kreg, sendmsg, newmsg, txmsg, rxpos, elapsed, r, rxdata,
                 recvmsg, rxnum, logmsg, rval>>
  /\ UNCHANGED <<pollVars, wifiVars>>

InitCodec ==
  /\ pc = "send"
  /\ kreg = 0
  /\ sendmsg \in Msgs
  /\ newmsg = <<>>
  /\ txmsg = <<>>
  /\ rxq = <<>>
  /\ rxpos = 0
  /\ elapsed = 0
  /\ r = 0
  /\ rxdata = <<>>
  /\ \E g \in StackBytes : recvmsg = FreshBuffer(g)
  /\ rxnum = 0
  /\ logmsg = ""
  /\ rval = FloatZero
  /\ PollIdle
  /\ WifiBoot

NextCodec ==
  \/ KamSend
  \/ Wire
  \/ KamReceiveEnter
  \/ Tick
  \/ RecvTimeout
  \/ RecvByte
  \/ RecvLoopExit
  \/ UnescapeStep
  \/ CrcCheck

SpecCodec == InitCodec /\ [][NextCodec]_vars

----------------------------------------------------------------------------
(* The decoder on its own: kamDecode on any reply kamReceive accepts *)

ExpBytes == {0, 2, 66, 130, 194, 63, 255}
MantBytes == {0, 100, 255}

\* Register indices whose replies are drawn with every payload.
PayloadRegs == {0, 1}

\* Replies that pass the checksum test, as kamReceive leaves them in
\* recvmsg.  For every register index k: an answer, an answer of zero, an
\* answer to another register and a reply with another opcode.  For the
\* indices in PayloadRegs also the answer with every exponent byte and
\* mantissa drawn, its length byte right or too large by three.
AcceptedReplies(k) ==
  LET reg == kregnums[k + 1]
  IN  { AppendCrc(Reply(16, reg, 2, Len(mant) + extra, expb, mant)) :
          extra \in IF k \in PayloadRegs THEN {0, 3} ELSE {},
          expb \in ExpBytes,
          mant \in SeqsUpTo(MantBytes, MaxMant) }
      \cup { AppendCrc(GoodReply(reg)),
             AppendCrc(ZeroReply(reg)),
             AppendCrc(GoodReply(OtherReg(k))),
             AppendCrc(Reply(17, reg, 2, 4, 66, <<0, 0, 48, 57>>)) }

InitDecode ==
  /\ pc = "recvret"
  /\ kreg \in 0..(NUMREGS - 1)
  /\ sendmsg = <<>>
  /\ newmsg = <<>>
  /\ txmsg = <<>>
  /\ rxq = <<>>
  /\ rxpos = 0
  /\ elapsed = 0
  /\ r = EndMark
  /\ rxdata = <<>>
  /\ \E g \in StackBytes, m \in AcceptedReplies(kreg) :
       /\ recvmsg = m \o SubSeq(FreshBuffer(g), Len(m) + 1, RECVCAP)
       /\ rxnum = Len(m)
  /\ logmsg = ""
  /\ rval = FloatZero
  /\ PollIdle
  /\ WifiBoot

NextDecode == KamReadRegDecode

SpecDecode == InitDecode /\ [][NextDecode]_vars

----------------------------------------------------------------------------
(* One register read under fair scheduling *)

\* The steps of a kamReceive call once it has entered its wait loop, the
\* advance of millis() among them.
KamReceiveStep ==
  \/ Tick
  \/ RecvTimeout
  \/ RecvByte
  \/ RecvLoopExit
  \/ UnescapeStep
  \/ CrcCheck

\* The thread keeps running kamReceive and millis() keeps advancing.
SpecLive == Init /\ [][Next]_vars /\ WF_vars(KamReceiveStep) /\ WF_vars(Tick)

----------------------------------------------------------------------------
(* readKamstrup: one poll after another over the register table *)

\* Line 146: attempts per register.
MaxAttempts == 15

\* Line 146 with one attempt more.
RetryAgainInclusive(v, a) == IsZero(v) /\ a <= MaxAttempts

\* Line 146: the condition of the retry loop.
RetryAgain(v, a) == IsZero(v) /\ a < MaxAttempts

\* What the meter line delivers during one attempt of a poll: nothing, the
\* answer, an answer of zero, a late answer to another register, an answer
\* with a damaged checksum.
PollStreams(k) ==
  LET reg == kregnums[k + 1]
  IN  { <<>>,
        MeterFrame(AppendCrc(GoodReply(reg))),
        MeterFrame(AppendCrc(ZeroReply(reg))),
        MeterFrame(AppendCrc(GoodReply(OtherReg(k)))),
        MeterFrame(GoodReply(reg) \o <<0, 0>>) }

\* Lines 146-147: another attempt; kamReadReg is entered with a new frame
\* of locals.
PollAttempt ==
  /\ pc = "poll"
  /\ RetryAgain(val, att)
  /\ pc' = "readreg"
  /\ sendmsg' = <<>>
  /\ newmsg' = <<>>
  /\ txmsg' = <<>>
  /\ rxq' = <<>>
  /\ rxpos' = 0
  /\ elapsed' = 0
  /\ r' = 0
  /\ rxdata' = <<>>
  /\ \E g \in StackBytes : recvmsg' = FreshBuffer(g)
  /\ rxnum' = 0
  /\ logmsg' = ""
  /\ rval' = FloatZero
  /\ UNCHANGED <<kreg, pollVars, wifiVars>>

\* The meter line during an attempt of a poll.
PollMeterReply ==
  /\ pc = "sent"
  /\ \E s \in PollStreams(kreg) : rxq' = s
  /\ pc' = "recv"
  /\ UNCHANGED <<kreg, sendmsg, newmsg, txmsg, rxpos, elapsed, r, rxdata,
                 recvmsg, rxnum, logmsg, rval>>
  /\ UNCHANGED <<pollVars, wifiVars>>

\* Lines 147-149: kamReadReg has returned; val is what it handed back.
PollReturn ==
  /\ pc = "done"
  /\ val' = rval
  /\ att' = att + 1
  /\ pc' = "poll"
  /\ UNCHANGED <<kreg, sendmsg, newmsg, txmsg, rxq, rxpos, elapsed, r, rxdata,
                 recvmsg, rxnum, logmsg, rval, wifiVars>>

\* Line 146: the retry loop is left.
PollLoopExit ==
  /\ pc = "poll"
  /\ ~RetryAgain(val, att)
  /\ pc' = "publish"
  /\ UNCHANGED <<kreg, sendmsg, newmsg, txmsg, rxq, rxpos, elapsed, r, rxdata,
                 recvmsg, rxnum, logmsg, rval, pollVars, wifiVars>>

\* Lines 152-156 and 142-144: val is published under the topic of kreg
\* (allowZero is true), and the loop goes to the next register.
PollPublish ==
  /\ pc = "publish"
  /\ kreg' = kreg + 1
  /\ val' = FloatZero
  /\ att' = 0
  /\ pc' = IF kreg + 1 < NUMREGS THEN "poll" ELSE "polldone"
  /\ UNCHANGED <<sendmsg, newmsg, txmsg, rxq, rxpos, elapsed, r, rxdata,
                 recvmsg, rxnum, logmsg, rval, wifiVars>>

\* Lines 186-190: pollFreq later loop() calls readKamstrup again.
PollStart ==
  /\ pc = "polldone"
  /\ kreg' = 0
  /\ pc' = "poll"
  /\ UNCHANGED <<sendmsg, newmsg, txmsg, rxq, rxpos, elapsed, r, rxdata,
                 recvmsg, rxnum, logmsg, rval, pollVars, wifiVars>>

InitPoll ==
  /\ pc = "poll"
  /\ kreg = 0
  /\ sendmsg = <<>>
  /\ newmsg = <<>>
  /\ txmsg = <<>>
  /\ rxq = <<>>
  /\ rxpos = 0
  /\ elapsed = 0
  /\ r = 0
  /\ rxdata = <<>>
  /\ recvmsg = FreshBuffer(0)
  /\ rxnum = 0
  /\ logmsg = ""
  /\ rval = FloatZero
  /\ PollIdle
  /\ WifiBoot

NextPoll ==
  \/ PollAttempt
  \/ KamReadRegRequest
  \/ KamSend
  \/ PollMeterReply
  \/ KamReceiveEnter
  \/ Tick
  \/ RecvTimeout
  \/ RecvByte
  \/ RecvLoopExit
  \/ UnescapeStep
  \/ CrcCheck
  \/ KamReadRegDecode
  \/ KamReadRegFallOff
  \/ PollReturn
  \/ PollLoopExit
  \/ PollPublish
  \/ PollStart

SpecPoll == InitPoll /\ [][NextPoll]_vars

----------------------------------------------------------------------------
(* setup_wifi and reboot *)

\* Line 57: the value connAtt must exceed for the reset.
ConnAttLimit == 10
\* Line 71: seconds setup_wifi waits for the connection.
WifiWaitMax == 30

\* Line 57: the test that leads to reboot().
ResetDue(c) == c > ConnAttLimit

\* Lines 56-70: setup_wifi is entered (from setup or from loop); the mcu
\* is reset, or a connection attempt begins with att = 0.
SetupWifiEnter ==
  /\ wpc = "idle"
  /\ IF ResetDue(connAtt)
       THEN wpc' = "reboot" /\ wifiAtt' = wifiAtt
       ELSE wpc' = "wait" /\ wifiAtt' = 0
  /\ UNCHANGED <<connAtt, wifiUp, readVars, pollVars>>

\* Lines 71-75: not connected and att < 30: a second passes.
WifiWait ==
  /\ wpc = "wait"
  /\ ~wifiUp
  /\ wifiAtt < WifiWaitMax
  /\ wifiAtt' = wifiAtt + 1
  /\ UNCHANGED <<connAtt, wifiUp, wpc, readVars, pollVars>>

\* Line 71: the loop is left, connected or after 30 seconds.
WifiWaitOver ==
  /\ wpc = "wait"
  /\ wifiUp \/ wifiAtt >= WifiWaitMax
  /\ wpc' = "check"
  /\ UNCHANGED <<connAtt, wifiAtt, wifiUp, readVars, pollVars>>

\* Lines 76-88: true is returned when connected; otherwise the failure is
\* counted and false returned.
SetupWifiReturn ==
  /\ wpc = "check"
  /\ connAtt' = IF wifiUp THEN connAtt ELSE (connAtt + 1) % 256
  /\ wpc' = "idle"
  /\ UNCHANGED <<wifiAtt, wifiUp, readVars, pollVars>>

\* The access point comes into reach or is lost.
WifiStatusChange ==
  /\ wpc # "reboot"
  /\ wifiUp' = ~wifiUp
  /\ UNCHANGED <<connAtt, wifiAtt, wpc, readVars, pollVars>>

\* Lines 92-96: the watchdog resets the mcu; the globals start anew.
Reboot ==
  /\ wpc = "reboot"
  /\ connAtt' = 0
  /\ wifiAtt' = 0
  /\ wifiUp' = FALSE
  /\ wpc' = "idle"
  /\ UNCHANGED <<readVars, pollVars>>

InitWifi ==
  /\ pc = "setup"
  /\ kreg = 0
  /\ sendmsg = <<>>
  /\ newmsg = <<>>
  /\ txmsg = <<>>
  /\ rxq = <<>>
  /\ rxpos = 0
  /\ elapsed = 0
  /\ r = 0
  /\ rxdata = <<>>
  /\ recvmsg = FreshBuffer(0)
  /\ rxnum = 0
  /\ logmsg = ""
  /\ rval = FloatZero
  /\ PollIdle
  /\ WifiBoot

NextWifi ==
  \/ SetupWifiEnter
  \/ WifiWait
  \/ WifiWaitOver
  \/ SetupWifiReturn
  \/ WifiStatusChange
  \/ Reboot

SpecWifi == InitWifi /\ [][NextWifi]_vars

----------------------------------------------------------------------------
(* Properties *)

NoReserved(msg) == \A i \in 1..Len(msg) : msg[i] \notin {6, 13, 27, 64, 128}

\* The checksum of body followed by two zero bytes, as <<high, low>>.
CrcPair(body) ==
  LET c == crc_1021(body \o <<0, 0>>, Len(body) + 2)
  IN  <<c \div 256, c % 256>>

\* C1: when the plain message kamSend escapes (newmsg) holds no reserved
\* value, the un-escape loop of kamReceive gives back exactly that message:
\* j is its length and recvmsg[0..j-1] its bytes.
C1_RoundTrip ==
  (pc = "crc" /\ NoReserved(newmsg))
    => /\ rxnum = Len(newmsg)
       /\ SubSeq(recvmsg, 1, rxnum) = newmsg

C1_Witness ==
  /\ pc = "crc"
  /\ NoReserved(newmsg)
  /\ Len(sendmsg) >= 2
  /\ rxnum = Len(sendmsg) + 2

\* C2: the message kamSend completes with its checksum has checksum zero,
\* so it passes the test kamReceive applies (the full length is returned).
C2_SentChecksumIsZero ==
  pc = "sent"
    => /\ crc_1021(newmsg, Len(newmsg)) = 0
       /\ ReceivedLength(newmsg) = Len(sendmsg) + 2

C2_Witness ==
  /\ pc = "sent"
  /\ Len(sendmsg) >= 2
  /\ newmsg[Len(newmsg)] # 0
  /\ newmsg[Len(newmsg) - 1] # newmsg[Len(newmsg)]

\* C3 as stated: the plain request for register r is the six bytes
\* 3F 10 hi(r) lo(r) and the checksum of 3F 10 hi(r) lo(r) 00 00.
C3_RequestSixBytes ==
  pc = "sent"
    => LET reg  == kregnums[kreg + 1]
           head == <<63, 16, reg \div 256, reg % 256>>
       IN  newmsg = head \o CrcPair(head)

\* C3 amended: the plain request for register r is the seven bytes
\* 3F 10 01 hi(r) lo(r) and the checksum of 3F 10 01 hi(r) lo(r) 00 00; for
\* register 0x0001 it is 3F 10 01 00 01 55 A1.
C3_RequestSevenBytes ==
  pc = "sent"
    => LET reg  == kregnums[kreg + 1]
           head == <<63, 16, 1, reg \div 256, reg % 256>>
       IN  /\ newmsg = head \o CrcPair(head)
           /\ reg = 1 => newmsg = <<63, 16, 1, 0, 1, 85, 161>>

C3_Witness == pc = "sent" /\ kregnums[kreg + 1] = 1 /\ Len(newmsg) = 7

\* kamDecode has returned for a reply whose bytes 0-3 answer register kreg.
DecodedMatching ==
  /\ pc = "done"
  /\ rxnum # 0
  /\ SubSeq(recvmsg, 1, 4) = <<63, 16, kregnums[kreg + 1] \div 256,
                               kregnums[kreg + 1] % 256>>

\* The big-endian value of the last four bytes of a run of bytes, as a
\* 32-bit signed long holds it.
BigEndian32(bytes) ==
  LET n   == Len(bytes)
      b(k) == IF n >= k THEN bytes[n - k + 1] ELSE 0
  IN  (IF b(4) >= 128 THEN b(4) - 256 ELSE b(4)) * 16777216
        + b(3) * 65536 + b(2) * 256 + b(1)

\* The n bytes of recvmsg from C index off.
Bytes(off, n) == SubSeq(recvmsg, off + 1, off + n)

SignedExponent(b) == IF (b \div 64) % 2 = 1 THEN 0 - (b % 64) ELSE b % 64

\* The exponent of the exponent-and-sign byte b lies where 10^e, and its
\* product with any 32-bit mantissa, is a single-precision number.
InFloatRange(b) ==
  /\ SignedExponent(b) >= -37
  /\ SignedExponent(b) <= 29

\* C4 as stated: length at byte 4, exponent-and-sign byte at byte 5,
\* mantissa bytes from byte 6.
C4_LayoutFourFiveSix ==
  DecodedMatching
    => LET len == At(recvmsg, 4)
           b   == At(recvmsg, 5)
           x   == BigEndian32(Bytes(6, len))
       IN  InFloatRange(b)
             => /\ rval.m = x
                /\ rval.e = SignedExponent(b)
                /\ rval.neg = (b >= 128)

\* C4 amended: length at byte 5, exponent-and-sign byte at byte 6, mantissa
\* bytes from byte 7 (byte 4 is not read).
C4_LayoutFiveSixSeven ==
  DecodedMatching
    => LET len == At(recvmsg, 5)
           b   == At(recvmsg, 6)
           x   == BigEndian32(Bytes(7, len))
       IN  InFloatRange(b)
             => /\ rval.m = x
                /\ rval.e = SignedExponent(b)
                /\ rval.neg = (b >= 128)

C4_Witness ==
  /\ DecodedMatching
  /\ At(recvmsg, 4) = 2
  /\ At(recvmsg, 5) = 4
  /\ Bytes(7, 4) = <<0, 100, 255, 0>>
  /\ rval.m = 6618880

\* The float f is the integer n.
ValueIs(f, n) ==
  /\ f.cls = "fin"
  /\ IF f.e >= 0
       THEN (IF f.neg THEN 0 - f.m ELSE f.m) * Pow10(f.e) = n
       ELSE (IF f.neg THEN 0 - f.m ELSE f.m) = n * Pow10(0 - f.e)

\* C5 as stated: for every exponent-and-sign byte b and mantissa x the
\* result is the number x * 10^e, e = +-(b & 0x3F) by bit 0x40, negated
\* exactly when bit 0x80 is set.
C5_ValueForEveryExponent ==
  DecodedMatching
    => LET b == At(recvmsg, 6)
           x == BigEndian32(Bytes(7, At(recvmsg, 5)))
       IN  rval = [cls |-> "fin", m |-> x, e |-> SignedExponent(b),
                   neg |-> (b >= 128)]

\* C5 amended: the same for every b whose exponent e lies in -37..29, where
\* 10^e and x * 10^e are single-precision numbers; mantissa 100 gives 10000
\* with b = 0x02 and -1 with b = 0xC2.
C5_ValueWithinFloatRange ==
  DecodedMatching
    => LET b == At(recvmsg, 6)
           x == BigEndian32(Bytes(7, At(recvmsg, 5)))
       IN  /\ InFloatRange(b)
             => rval = [cls |-> "fin", m |-> x, e |-> SignedExponent(b),
                        neg |-> (b >= 128)]
           /\ (x = 100 /\ b = 2) => ValueIs(rval, 10000)
           /\ (x = 100 /\ b = 194) => ValueIs(rval, -1)

C5_Witness ==
  /\ DecodedMatching
  /\ At(recvmsg, 6) = 194
  /\ Bytes(7, At(recvmsg, 5)) = <<0, 0, 0, 100>>
  /\ rval = [cls |-> "fin", m |-> 100, e |-> -2, neg |-> TRUE]

\* a == b of two floats.
FloatEq(a, b) ==
  \/ IsZero(a) /\ IsZero(b)
  \/ a.cls # "nan" /\ a = b

\* What a checksum-valid answer of zero to register index k decodes to.
DecodedZero(k) == kamDecode(k, AppendCrc(ZeroReply(kregnums[k + 1])), 0)

\* C6: what kamReadReg hands back for a checksum-valid reply whose bytes
\* 0-3 do not answer the requested register differs from every value a
\* valid answer decodes to (zero among them) and from what it hands back
\* after a checksum failure.
C6_MismatchDistinguishable ==
  (pc = "done" /\ rxnum # 0 /\ ~DecodedMatching)
    => /\ ~FloatEq(rval, DecodedZero(kreg))
       /\ \A f \in UnsetFloats : ~FloatEq(rval, f)

\* kamReceive has returned without printing a diagnostic.
ReceiveSucceeded == pc = "recvret" /\ logmsg = ""

\* C7 as stated: on success the reported length is the un-escaped length
\* less the two checksum bytes, the message being the bytes before them.
C7_LengthLessChecksum ==
  ReceiveSucceeded
    => /\ rxnum = Len(newmsg) - 2
       /\ SubSeq(recvmsg, 1, rxnum) = sendmsg

\* C7 amended: on success the reported length is the un-escaped length,
\* the two checksum bytes included, and recvmsg holds the un-escaped bytes
\* with their checksum; the terminating 0x0D is not among them.
C7_LengthWithChecksum ==
  ReceiveSucceeded
    => /\ rxnum = Len(sendmsg) + 2
       /\ SubSeq(recvmsg, 1, rxnum) = newmsg
       /\ rxdata[Len(rxdata)] = EndMark
       /\ crc_1021(recvmsg, rxnum) = 0

C7_Witness ==
  /\ ReceiveSucceeded
  /\ rxnum = Len(sendmsg) + 2
  /\ Len(sendmsg) >= 2
  /\ ~NoReserved(newmsg)
  /\ Len(rxdata) > rxnum + 1

\* C8: the timeout is reported only once more than KAMTIMEOUT milliseconds
\* have passed since the call began.
C8_NoEarlyTimeout ==
  logmsg = "Timed out listening for data" => elapsed > KAMTIMEOUT

C8_Witness ==
  /\ logmsg = "Timed out listening for data"
  /\ pc = "recvret"
  /\ rxnum = 0
  /\ Len(rxq) > 0
  /\ rxpos = Len(rxq)
  /\ \A i \in 1..Len(rxq) : rxq[i] # EndMark
  /\ elapsed = KAMTIMEOUT + TickMs

\* The bytes read from the source so far.
BytesRead == SubSeq(rxq, 1, rxpos)

\* C9: during and after a receive call the accumulation buffer is the
\* bytes read with every 0x40 left out, and 0x0D can only be its last byte
\* (nothing is read after it).
C9_BufferIsFilteredInput ==
  pc \in {"loop", "unescape", "crc", "recvret", "done", "corrupt"}
    => /\ rxdata = SelectSeq(BytesRead, LAMBDA b : b # StartRx)
       /\ \A i \in 1..(Len(rxdata) - 1) : rxdata[i] # EndMark

\* C10: when kamReceive reports 0 after a timeout or a checksum error, the
\* caller of kamReadReg gets a defined failure result, never a value it
\* takes for a nonzero measurement.
C10_ExplicitFailure ==
  (pc = "done" /\ rxnum = 0 /\ logmsg # "") => IsZero(rval)

\* The bytes of a frame body are well escaped from index i on: 0x06, 0x0D,
\* 0x40 and 0x80 do not occur, and 0x1B occurs only in front of the
\* complement of one of the five reserved values.
RECURSIVE WellEscapedFrom(_, _)
WellEscapedFrom(body, i) ==
  IF i > Len(body) THEN TRUE
  ELSE IF body[i] = 27
    THEN /\ i < Len(body)
         /\ body[i + 1] \in {249, 242, 228, 191, 127}
         /\ WellEscapedFrom(body, i + 2)
    ELSE /\ body[i] \notin {6, 13, 64, 128}
         /\ WellEscapedFrom(body, i + 1)

\* C12: every frame kamSend writes starts with 0x80, ends with 0x0D, and
\* between the two holds none of 0x06, 0x0D, 0x40, 0x80, and 0x1B only as
\* an escape marker followed by the complement of a reserved value.
C12_FrameWellEscaped ==
  pc = "sent"
    => /\ Len(txmsg) >= 2
       /\ txmsg[1] = 128
       /\ txmsg[Len(txmsg)] = 13
       /\ WellEscapedFrom(SubSeq(txmsg, 2, Len(txmsg) - 1), 1)

C12_Witness ==
  /\ pc = "sent"
  /\ sendmsg = <<13, 27, 128>>
  /\ SubSeq(txmsg, 1, 7) = <<128, 27, 242, 27, 228, 27, 127>>

\* The bytes read from the source that kamReceive stores (all but 0x40).
StoredBytes == SelectSeq(BytesRead, LAMBDA b : b # StartRx)

\* C13: kamReceive never stores a byte at an index at or beyond the
\* capacity of rxdata: the k-th byte it stores goes to index k - 1, so no
\* more than 50 bytes are ever stored.
C13_StoresWithinCapacity == Len(StoredBytes) <= RXCAP

\* C14: the wait loop is left for the un-escape step only after a 0x0D has
\* been read from the source during this call, and never with zero
\* accumulated bytes.
C14_CompleteOnlyAfterEndRead ==
  /\ pc \in {"unescape", "crc"}
       => /\ rxpos > 0
          /\ At(rxq, rxpos - 1) = EndMark
          /\ Len(rxdata) > 0
  /\ ~(pc = "corrupt" /\ Len(rxdata) = 0)

\* The value of up to three bytes, first byte most significant.
BigEndian24(bytes) ==
  LET n    == Len(bytes)
      b(k) == IF n >= k THEN bytes[n - k + 1] ELSE 0
  IN  b(3) * 65536 + b(2) * 256 + b(1)

\* C15: for a mantissa of 0 to 4 bytes the accumulated mantissa is the
\* unsigned big-endian integer of those bytes: it is not negative, its
\* low 24 bits are the last three bytes and the bits above them are the
\* first of four bytes.
C15_MantissaUnsigned ==
  (DecodedMatching /\ At(recvmsg, 5) <= 4 /\ InFloatRange(At(recvmsg, 6)))
    => LET len   == At(recvmsg, 5)
           bytes == Bytes(7, len)
       IN  /\ rval.m >= 0
           /\ rval.m % 16777216
                = BigEndian24(SubSeq(bytes, IF len = 4 THEN 2 ELSE 1, len))
           /\ rval.m \div 16777216 = IF len = 4 THEN bytes[1] ELSE 0

\* C18: for every message, reserved values included, the frame kamSend
\* wrote (less its 0x80 prefix) fed to kamReceive is read to its end: the
\* wait loop is left only when the frame's last byte has been read, with
\* every byte of the escaped body stored; the un-escaped output is the
\* message with its two checksum bytes, and the checksum test passes.
C18_FrameReadToItsEnd ==
  /\ pc \in {"unescape", "crc", "corrupt"}
       => /\ rxpos = Len(rxq)
          /\ rxdata = Tail(txmsg)
  /\ pc = "crc"
       => /\ rxnum = Len(newmsg)
          /\ SubSeq(recvmsg, 1, rxnum) = newmsg
  /\ (pc = "recvret" /\ logmsg # "Timed out listening for data")
       => /\ logmsg = ""
          /\ rxnum = Len(sendmsg) + 2

\* The same where the wait loop was entered with r other than 0x0D.
C18_UnlessLoopSkipped == (pc = "corrupt" /\ rxpos = 0) \/ C18_FrameReadToItsEnd

\* The un-escape loop leaves an output whose checksum test passes.
Accepted(out) == crc_1021(out, Len(out)) = 0

\* C20: for a reply kamReceive accepts, the un-escape loop has written
\* recvmsg only below its capacity of 40 bytes, and every index kamDecode
\* reads lies below the accepted length j.
C20_AccessesWithinReply ==
  /\ (/\ Len(rxdata) > 0
       /\ rxdata[Len(rxdata)] = EndMark
       /\ Accepted(Unescape(rxdata)))
       => Len(Unescape(rxdata)) <= RECVCAP
  /\ (pc = "done" /\ rxnum # 0)
       => \A i \in kamDecodeReads(kreg, recvmsg, 0) : i < rxnum

\* C17: the mcu is reset when setup_wifi is entered with 10 failures
\* counted, and no connection attempt is under way with 10 failures counted.
C17_ResetAfterTenFailures ==
  /\ wpc = "reboot" => connAtt = 10
  /\ wpc \in {"wait", "check"} => connAtt < 10

\* C11: in a poll every register is read at least once and at most 15
\* times; a new attempt is made only while the value is zero and fewer
\* than 15 were made, and the retry loop is left as soon as a value is
\* nonzero or 15 attempts have yielded zero; the registers are taken in
\* the order of the table, each once, the poll ending after the last.
C11_AttemptsBounded ==
  /\ att <= 15
  /\ pc = "publish" => /\ att >= 1
                       /\ IsZero(val) => att = 15
  /\ pc = "polldone" => kreg = NUMREGS
  /\ pc \in {"poll", "publish"} => kreg < NUMREGS

C11_RetryAndOrder ==
  /\ (pc = "poll" /\ pc' = "readreg") => (IsZero(val) /\ att < 15)
  /\ (pc = "poll" /\ pc' = "publish") => (~IsZero(val) \/ att = 15)
  /\ (pc = "poll" /\ ~IsZero(val)) => pc' = "publish"
  /\ (pc = "poll" /\ IsZero(val) /\ att < 15) => pc' = "readreg"
  /\ kreg' # kreg => \/ pc = "publish" /\ kreg' = kreg + 1
                     \/ pc = "polldone" /\ kreg' = 0

C11_ReadKamstrupPoll == []C11_AttemptsBounded /\ [][C11_RetryAndOrder]_vars

C11_Witness ==
  /\ pc = "publish"
  /\ kreg = NUMREGS - 1
  /\ att = 15
  /\ IsZero(val)

\* C19: every value published under the topic of register index kreg is 0
\* or what kamDecode gives for the checksum-valid reply received in the
\* attempt just made for kreg, whose bytes 2-3 are that register's address.
C19_PublishedFromMatchingReply ==
  pc = "publish"
    => \/ IsZero(val)
       \/ /\ rxnum # 0
          /\ At(recvmsg, 2) = kregnums[kreg + 1] \div 256
          /\ At(recvmsg, 3) = kregnums[kreg + 1] % 256
          /\ \E g \in StackBytes : val = kamDecode(kreg, recvmsg, g)

\* C16: a receive call that has entered its wait loop returns (end marker
\* read and checksum tested, or timeout), when the thread keeps running
\* and the clock advances.
C16_ReceiveReturns == (pc = "loop") ~> (pc = "recvret")

====
